---- MODULE Spec2Model ----
(***************************************************************************)
(* Model of src/core/risk_manager.py (RiskManager) and of the backtest     *)
(* orchestrator scripts/backtest_with_monitoring.py with the               *)
(* scripts/track_peak_usage.py process it starts.                          *)
(*                                                                         *)
(* Numbers.  A Python float is modelled by a pair <<n, d>>:                *)
(*   d > 0   the finite value n/d, kept in lowest terms;                   *)
(*   d = 0   an IEEE special: <<1,0>> = +inf, <<-1,0>> = -inf,             *)
(*           <<0,0>> = nan;                                                *)
(*   d = -1  an object that is not a number (a str cell of a column);      *)
(*   d = -2  Python's None (an optional argument that was not given);      *)
(*   d = -3  the ValueError float() raises for a text that is no number.   *)
(* Arithmetic is exact rational arithmetic with the IEEE rules for the     *)
(* specials (x/0, inf-inf, nan propagation, comparisons with nan false).   *)
(* Rounding of binary floating point is not modelled.                      *)
(*                                                                         *)
(* Specifications.                                                         *)
(*   Spec        two threads call calculate_risk_metrics and               *)
(*               check_portfolio_risk on one shared portfolio_history, one *)
(*               step per statement that touches it; a column assignment   *)
(*               is taken as one atomic step.                              *)
(*   SpecSizing  calls of calculate_position_size, calculate_stop_loss and *)
(*               calculate_take_profit over bounded argument sets.         *)
(*   SpecConfig  import of the module under an environment (the DEFAULT_*  *)
(*               values are parsed) and construction of a RiskManager.     *)
(*   SpecCaller  one caller alternates metric calls with updates of the    *)
(*               value column of the same series object.                   *)
(*   SpecMonitor main of backtest_with_monitoring.py, one step per         *)
(*               statement, interleaved with the monitor process and with  *)
(*               interrupts and exceptions.                                *)
(***************************************************************************)
EXTENDS Integers, Sequences, FiniteSets, TLC

VARIABLES
    max_position_size,      \* self.max_position_size
    max_drawdown,           \* self.max_drawdown
    stop_loss_percentage,   \* self.stop_loss_percentage
    portfolio_history,      \* the caller's object handed to the metric calls
    caller_frame,           \* history: portfolio_history as the caller built it
    pc,                     \* pc[t]: source line thread t is about to execute
    op,                     \* op[t]: the public method thread t called
    metrics,                \* metrics[t]: the local dict `metrics` of thread t
    ret,                    \* ret[t]: what thread t's call returned or raised
    call,                   \* the last call of a sizing operation, with result
    environ,                \* os.environ: the three overrides, text or unset
    module,                 \* risk_manager's DEFAULT_* values once imported
    orchestrator,           \* backtest_with_monitoring.main: position and locals
    monitor,                \* the track_peak_usage.py process main starts
    files                   \* monitoring/peak_usage_*.json, oldest first

vars == <<max_position_size, max_drawdown, stop_loss_percentage,
          portfolio_history, caller_frame, pc, op, metrics, ret, call,
          environ, module, orchestrator, monitor, files>>

\* the process environment and the scripts, which no RiskManager call touches
host == <<environ, module, orchestrator, monitor, files>>

config == <<max_position_size, max_drawdown, stop_loss_percentage>>

-----------------------------------------------------------------------------
(* Bounds of the model *)

\* longest portfolio value series
MaxLen == 3

\* most measurements the monitor takes before it is stopped
MaxMeasurements == 2

-----------------------------------------------------------------------------
(* float arithmetic *)

NaN == <<0, 0>>
Inf == <<1, 0>>
NegInf == <<-1, 0>>
None == <<0, -2>>
StrObj == <<0, -1>>

Zero == <<0, 1>>
One == <<1, 1>>

IsNone(x) == x[2] = -2
IsNumber(x) == x[2] >= 0
IsNaN(x) == x = NaN
IsFinite(x) == x[2] > 0

AbsInt(i) == IF i < 0 THEN -i ELSE i
SgnInt(i) == IF i < 0 THEN -1 ELSE IF i > 0 THEN 1 ELSE 0

RECURSIVE GCD(_, _)
GCD(a, b) == IF b = 0 THEN a ELSE GCD(b, a % b)

\* lowest terms, positive denominator; a zero denominator keeps only the sign
Norm(n, d) ==
    IF d = 0 THEN <<SgnInt(n), 0>>
    ELSE LET g == GCD(AbsInt(n), AbsInt(d))
             s == IF d < 0 THEN -1 ELSE 1
         IN  <<s * (n \div g), s * (d \div g)>>

Float(i) == <<i, 1>>

FMul(x, y) == Norm(x[1] * y[1], x[2] * y[2])

FInv(y) == IF y[1] < 0 THEN <<-y[2], -y[1]>> ELSE <<y[2], y[1]>>

\* numpy float64 division: x/0 is +-inf or nan, never an exception
FDiv(x, y) == FMul(x, FInv(y))

FNeg(x) == <<-x[1], x[2]>>

FAdd(x, y) ==
    IF x[2] = 0 /\ y[2] = 0
    THEN (IF x = y THEN x ELSE NaN)
    ELSE Norm(x[1] * y[2] + y[1] * x[2], x[2] * y[2])

FSub(x, y) == FAdd(x, FNeg(y))

FAbs(x) == <<AbsInt(x[1]), x[2]>>

\* comparisons: any comparison with nan is false, except !=
FLt(x, y) ==
    /\ ~IsNaN(x) /\ ~IsNaN(y)
    /\ x # y
    /\ IF x[2] = 0 THEN x = NegInf
       ELSE IF y[2] = 0 THEN y = Inf
       ELSE x[1] * y[2] < y[1] * x[2]

FGt(x, y) == FLt(y, x)

FEq(x, y) == ~IsNaN(x) /\ ~IsNaN(y) /\ x = y

FNe(x, y) == ~FEq(x, y)

\* sign(x) * x^2: the order-preserving stand-in for a quantity that carries
\* a square root (std, sqrt(252)): such a quantity is stored squared
SignedSq(x) == FMul(x, FAbs(x))

TradingDays == 252

-----------------------------------------------------------------------------
(* str.lower on a direction, spelled as a sequence of characters *)

LowerChar(c) ==
    CASE c = "L" -> "l" [] c = "O" -> "o" [] c = "N" -> "n" [] c = "G" -> "g"
      [] c = "S" -> "s" [] c = "H" -> "h" [] c = "R" -> "r" [] c = "T" -> "t"
      [] OTHER -> c

Lower(s) == [i \in 1..Len(s) |-> LowerChar(s[i])]

long == <<"l", "o", "n", "g">>
short == <<"s", "h", "o", "r", "t">>

-----------------------------------------------------------------------------
(* RiskManager.calculate_position_size *)

PositionSizeNoZeroGuard(mps, portfolio_value, risk_per_trade, entry_price, stop_loss_price) ==
    LET rpt == IF IsNone(risk_per_trade) THEN mps ELSE risk_per_trade
        max_risk_amount == FMul(portfolio_value, rpt)
    IN  IF ~IsNone(entry_price) /\ ~IsNone(stop_loss_price)
        THEN FDiv(FDiv(max_risk_amount, FAbs(FSub(entry_price, stop_loss_price))),
                  entry_price)
        ELSE LET position_value == FMul(portfolio_value, mps)
             IN  IF ~IsNone(entry_price)
                 THEN FDiv(position_value, entry_price)
                 ELSE position_value

PositionSize(mps, portfolio_value, risk_per_trade, entry_price, stop_loss_price) ==
    LET rpt == IF IsNone(risk_per_trade) THEN mps ELSE risk_per_trade
        max_risk_amount == FMul(portfolio_value, rpt)
    IN  IF ~IsNone(entry_price) /\ ~IsNone(stop_loss_price)
        THEN LET risk_per_unit == FAbs(FSub(entry_price, stop_loss_price))
             IN  IF FEq(risk_per_unit, Zero)
                 THEN FDiv(FMul(portfolio_value, mps), entry_price)
                 ELSE LET position_size == FDiv(max_risk_amount, risk_per_unit)
                      IN  FDiv(position_size, entry_price)
        ELSE LET position_value == FMul(portfolio_value, mps)
             IN  IF ~IsNone(entry_price)
                 THEN FDiv(position_value, entry_price)
                 ELSE position_value

(* RiskManager.calculate_stop_loss *)

StopLossPercentageFirst(slp, entry_price, direction, atr, atr_multiplier, custom_percentage) ==
    LET stop_percentage == IF ~IsNone(custom_percentage) THEN custom_percentage ELSE slp
    IN  IF ~IsNone(atr) /\ IsNone(custom_percentage)
        THEN LET stop_distance == FMul(atr, atr_multiplier)
             IN  IF Lower(direction) = long
                 THEN FSub(entry_price, stop_distance)
                 ELSE FAdd(entry_price, stop_distance)
        ELSE IF Lower(direction) = long
             THEN FMul(entry_price, FSub(One, stop_percentage))
             ELSE FMul(entry_price, FAdd(One, stop_percentage))

StopLoss(slp, entry_price, direction, atr, atr_multiplier, custom_percentage) ==
    LET stop_percentage == IF ~IsNone(custom_percentage) THEN custom_percentage ELSE slp
    IN  IF ~IsNone(atr)
        THEN LET stop_distance == FMul(atr, atr_multiplier)
             IN  IF Lower(direction) = long
                 THEN FSub(entry_price, stop_distance)
                 ELSE FAdd(entry_price, stop_distance)
        ELSE IF Lower(direction) = long
             THEN FMul(entry_price, FSub(One, stop_percentage))
             ELSE FMul(entry_price, FAdd(One, stop_percentage))

(* RiskManager.calculate_take_profit *)

TakeProfitSignedRisk(entry_price, stop_loss_price, direction, risk_reward_ratio) ==
    LET risk == FSub(entry_price, stop_loss_price)
        reward == FMul(risk, risk_reward_ratio)
    IN  IF Lower(direction) = long
        THEN FAdd(entry_price, reward)
        ELSE FSub(entry_price, reward)

TakeProfit(entry_price, stop_loss_price, direction, risk_reward_ratio) ==
    LET risk == FAbs(FSub(entry_price, stop_loss_price))
        reward == FMul(risk, risk_reward_ratio)
    IN  IF Lower(direction) = long
        THEN FAdd(entry_price, reward)
        ELSE FSub(entry_price, reward)

-----------------------------------------------------------------------------
(* pandas: a DataFrame is [type, cols], cols a function from the names of   *)
(* its columns to their cells (sequences of equal length)                   *)

\* the threads that call the RiskManager concurrently
Threads == {"t1", "t2"}

MetricKeys == {"volatility", "max_drawdown", "sharpe_ratio", "sortino_ratio",
               "calmar_ratio"}

NoMetrics == [k \in {} |-> NaN]

DataFrame(c) == [type |-> "DataFrame", cols |-> c]

NoneObject == [type |-> "NoneType", cols |-> NoMetrics]

Columns(df) == DOMAIN df.cols

NRows(df) == IF Columns(df) = {} THEN 0
             ELSE Len(df.cols[CHOOSE c \in Columns(df) : TRUE])

\* DataFrame.empty: some axis has length 0
Empty(df) == Columns(df) = {} \/ NRows(df) = 0

\* df[name] = column: adds the column or replaces it, in place
SetColumn(df, name, column) ==
    [df EXCEPT !.cols = [c \in Columns(df) \cup {name} |->
                            IF c = name THEN column ELSE df.cols[c]]]

AllNumbers(x) == \A i \in 1..Len(x) : IsNumber(x[i])

\* Series.pct_change(): v[i]/v[i-1] - 1, nan for the first element
PctChange(v) ==
    [i \in 1..Len(v) |-> IF i = 1 THEN NaN
                         ELSE FSub(FDiv(v[i], v[i-1]), One)]

\* the elements that are not nan, in order (skipna)
RECURSIVE DropNa(_)
DropNa(x) ==
    IF x = <<>> THEN <<>>
    ELSE IF IsNaN(x[1]) THEN DropNa(Tail(x))
    ELSE <<x[1]>> \o DropNa(Tail(x))

RECURSIVE Sum(_)
Sum(x) == IF x = <<>> THEN Zero ELSE FAdd(x[1], Sum(Tail(x)))

RECURSIVE Prod(_)
Prod(x) == IF x = <<>> THEN One ELSE FMul(x[1], Prod(Tail(x)))

FMax(x, y) == IF FGt(y, x) THEN y ELSE x
FMin(x, y) == IF FLt(y, x) THEN y ELSE x

RECURSIVE MaxOf(_)
MaxOf(x) == IF Len(x) = 1 THEN x[1] ELSE FMax(x[1], MaxOf(Tail(x)))

RECURSIVE MinOf(_)
MinOf(x) == IF Len(x) = 1 THEN x[1] ELSE FMin(x[1], MinOf(Tail(x)))

\* Series.mean(): nan when no element is left after skipna
Mean(x) == LET y == DropNa(x)
           IN  FDiv(Sum(y), Float(Len(y)))

\* Series.std() squared (ddof = 1): nan for fewer than two elements
Var(x) ==
    LET y == DropNa(x)
        m == Mean(y)
        sq == [i \in 1..Len(y) |-> FMul(FSub(y[i], m), FSub(y[i], m))]
    IN  IF Len(y) < 2 THEN NaN ELSE FDiv(Sum(sq), Float(Len(y) - 1))

\* Series.min(): nan when every element is nan
Min(x) == LET y == DropNa(x)
          IN  IF y = <<>> THEN NaN ELSE MinOf(y)

\* Series.cumprod(): nan stays nan and is skipped by the running product
CumProd(x) ==
    [i \in 1..Len(x) |-> IF IsNaN(x[i]) THEN NaN
                         ELSE Prod(DropNa(SubSeq(x, 1, i)))]

\* Series.cummax(): nan stays nan and is skipped by the running maximum
CumMax(x) ==
    [i \in 1..Len(x) |-> IF IsNaN(x[i]) THEN NaN
                         ELSE MaxOf(DropNa(SubSeq(x, 1, i)))]

\* returns[returns < 0]
Negative(x) == SelectSeq(x, LAMBDA r : FLt(r, Zero))

-----------------------------------------------------------------------------
(* RiskManager.calculate_risk_metrics: the value of each metric.  volatility, *)
(* sharpe_ratio and sortino_ratio carry sqrt(252) and a standard deviation:   *)
(* the model stores SignedSq of them (see SignedSq)                           *)

\* portfolio_history['returns'].std() * np.sqrt(252)
Volatility(returns) == FMul(Var(returns), Float(TradingDays))

\* (1 + portfolio_history['returns']).cumprod()
CumulativeReturns(returns) ==
    CumProd([i \in 1..Len(returns) |-> FAdd(One, returns[i])])

\* cumulative_returns / cumulative_max - 1
Drawdown(cumulative_returns, cumulative_max) ==
    [i \in 1..Len(cumulative_returns) |->
        FSub(FDiv(cumulative_returns[i], cumulative_max[i]), One)]

\* returns.mean() / returns.std() * np.sqrt(252)
SharpeRatio(returns) ==
    FMul(FDiv(SignedSq(Mean(returns)), Var(returns)), Float(TradingDays))

SortinoRatioNeverInf(returns) ==
    LET negative_returns == Negative(returns)
        downside_deviation == FMul(Var(negative_returns), Float(TradingDays))
    IN  FMul(FDiv(SignedSq(Mean(returns)), downside_deviation), Float(TradingDays))

\* mean / (negative_returns.std() * sqrt(252)) * sqrt(252), inf without a
\* negative return
SortinoRatio(returns) ==
    LET negative_returns == Negative(returns)
    IN  IF Len(negative_returns) > 0
        THEN LET downside_deviation ==
                     FMul(Var(negative_returns), Float(TradingDays))
             IN  FMul(FDiv(SignedSq(Mean(returns)), downside_deviation),
                      Float(TradingDays))
        ELSE Inf

\* mean * 252 / abs(max_drawdown), inf when max_drawdown == 0
CalmarRatio(returns, mdd) ==
    IF FNe(mdd, Zero)
    THEN FDiv(FMul(Mean(returns), Float(TradingDays)), FAbs(mdd))
    ELSE Inf

-----------------------------------------------------------------------------
(* RiskManager.check_portfolio_risk *)

DrawdownExceedsOrEquals(m, limit) ==
    /\ "max_drawdown" \in DOMAIN m
    /\ ~FLt(FAbs(m["max_drawdown"]), limit)
    /\ ~IsNaN(m["max_drawdown"])

\* 'max_drawdown' in metrics and abs(metrics['max_drawdown']) > self.max_drawdown
DrawdownExceeds(m, limit) ==
    /\ "max_drawdown" \in DOMAIN m
    /\ FGt(FAbs(m["max_drawdown"]), limit)

\* f"{x:.2%}": x as a percentage with two decimals, here the number of
\* hundredths of a percent, rounded half to even; x is finite and >= 0
Percent2(x) ==
    LET n == x[1] * 10000
        q == n \div x[2]
        r == n % x[2]
    IN  IF 2 * r > x[2] \/ (2 * r = x[2] /\ q % 2 = 1) THEN q + 1 ELSE q

Warning(m, limit) ==
    <<"Maximum drawdown", Percent2(FAbs(m["max_drawdown"])),
      "exceeds limit", Percent2(limit)>>

EmptyMetricsAccepted == <<TRUE, NoMetrics>>

\* return False, {}
EmptyMetricsResult == <<FALSE, NoMetrics>>

\* lines 284-303: the pair (is_acceptable, result)
RiskCheck(m, limit) ==
    LET exceeds == DrawdownExceeds(m, limit)
        is_acceptable == ~exceeds
        warnings == IF exceeds THEN <<Warning(m, limit)>> ELSE <<>>
    IN  <<is_acceptable,
          [is_acceptable |-> is_acceptable, metrics |-> m, warnings |-> warnings]>>

-----------------------------------------------------------------------------
(* parse_env_float: a text is a sequence of characters.  float() of a text   *)
(* that is no number raises ValueError, modelled by the value <<0, -3>>      *)

ValueError == <<0, -3>>

IsSpace(c) == c \in {" ", "\t", "\n"}

\* text.split('#')[0]: the text before the first '#'
RECURSIVE BeforeHash(_)
BeforeHash(text) ==
    IF text = <<>> \/ text[1] = "#" THEN <<>>
    ELSE <<text[1]>> \o BeforeHash(Tail(text))

RECURSIVE LStrip(_)
LStrip(text) ==
    IF text # <<>> /\ IsSpace(text[1]) THEN LStrip(Tail(text)) ELSE text

RECURSIVE RStrip(_)
RStrip(text) ==
    IF text # <<>> /\ IsSpace(text[Len(text)])
    THEN RStrip(SubSeq(text, 1, Len(text) - 1))
    ELSE text

\* str.strip()
Strip(text) == LStrip(RStrip(text))

Digits == {"0", "1", "2", "3", "4", "5", "6", "7", "8", "9"}

DigitValue(c) ==
    CASE c = "0" -> 0 [] c = "1" -> 1 [] c = "2" -> 2 [] c = "3" -> 3
      [] c = "4" -> 4 [] c = "5" -> 5 [] c = "6" -> 6 [] c = "7" -> 7
      [] c = "8" -> 8 [] c = "9" -> 9

RECURSIVE Decimal(_)
Decimal(ds) ==
    IF ds = <<>> THEN 0
    ELSE 10 * Decimal(SubSeq(ds, 1, Len(ds) - 1)) + DigitValue(ds[Len(ds)])

RECURSIVE Pow10(_)
Pow10(k) == IF k = 0 THEN 1 ELSE 10 * Pow10(k - 1)

\* float(text) for unsigned decimal texts: digits, at most one '.', at least
\* one digit; surrounding whitespace is ignored; anything else: ValueError
FloatOf(text) ==
    LET t == Strip(text)
        dots == {i \in 1..Len(t) : t[i] = "."}
        wellFormed == /\ \A i \in 1..Len(t) : t[i] \in Digits \cup {"."}
                      /\ Cardinality(dots) <= 1
                      /\ \E i \in 1..Len(t) : t[i] \in Digits
    IN  IF ~wellFormed THEN ValueError
        ELSE IF dots = {} THEN Float(Decimal(t))
        ELSE LET d == CHOOSE i \in dots : TRUE
                 whole == SubSeq(t, 1, d - 1)
                 frac == SubSeq(t, d + 1, Len(t))
             IN  Norm(Decimal(whole) * Pow10(Len(frac)) + Decimal(frac),
                      Pow10(Len(frac)))

\* os.getenv(env_var, default)
GetEnv(env, env_var, default) ==
    IF env_var \in DOMAIN env THEN env[env_var] ELSE default

ParseEnvFloatKeepComment(env, env_var, default) ==
    FloatOf(Strip(GetEnv(env, env_var, default)))

\* lines 27-32
ParseEnvFloat(env, env_var, default) ==
    LET value == GetEnv(env, env_var, default)
    IN  FloatOf(Strip(BeforeHash(value)))

EnvVars == {"MAX_POSITION_SIZE", "MAX_DRAWDOWN", "STOP_LOSS_PERCENTAGE"}

\* the default texts of lines 34-36
DefaultText(env_var) ==
    IF env_var = "MAX_DRAWDOWN" THEN <<"0", ".", "1", "5">>
    ELSE <<"0", ".", "0", "2">>

Unloaded == [state |-> "unloaded", DEFAULT |-> [v \in EnvVars |-> None]]

\* import risk_manager, lines 34-36: the three defaults, or the ValueError
\* of the first override that is no number
Import(env) ==
    LET parsed == [v \in EnvVars |-> ParseEnvFloat(env, v, DefaultText(v))]
    IN  IF \E v \in EnvVars : parsed[v] = ValueError
        THEN [state |-> "ValueError", DEFAULT |-> [v \in EnvVars |-> None]]
        ELSE [state |-> "loaded", DEFAULT |-> parsed]

-----------------------------------------------------------------------------
(* Inputs *)

DefaultMaxPositionSize == <<1, 50>>     \* '0.02'
DefaultMaxDrawdown == <<3, 20>>         \* '0.15'
DefaultStopLossPercentage == <<1, 50>>  \* '0.02'

\* portfolio values of the series
Values == {Float(2), Float(3), Float(4)}

RECURSIVE SeqsUpTo(_, _)
SeqsUpTo(S, n) ==
    IF n = 0 THEN {<<>>}
    ELSE LET shorter == SeqsUpTo(S, n - 1)
         IN  shorter \cup {Append(x, v) : x \in {y \in shorter : Len(y) = n - 1}, v \in S}

\* what a caller may hand to the metric calls: a frame with a numeric value
\* column (possibly without rows), a frame without the value column, a frame
\* whose value column holds a str, and an object that is no DataFrame
Histories ==
    {DataFrame([c \in {"value"} |-> v]) : v \in SeqsUpTo(Values, MaxLen)}
    \cup {DataFrame([c \in {"price"} |-> <<Float(3), Float(4)>>]),
          DataFrame([c \in {"value"} |-> <<Float(4), StrObj>>]),
          NoneObject}

Limits == {DefaultMaxDrawdown, <<1, 4>>}

Methods == {"calculate_risk_metrics", "check_portfolio_risk"}

NoReturn == [exc |-> "none", value |-> NoMetrics]

NoCall == [op |-> "none", args |-> <<>>, ret |-> NaN]

NoEnviron == [v \in {} |-> <<>>]

\* main before it runs: monitor_process not yet a local, peak_file 0 = None
\* (else an index into files), returned -1 = main has not returned
NotStarted == [pc |-> "idle", monitor_process |-> "unbound", return_code |-> 0,
               peak_file |-> 0, report |-> "unbuilt", returned |-> -1]

\* no monitor process yet; signals: the signals sent to it and not yet taken
NoProcess == [state |-> "none", measurements |-> 0, signals |-> {}]

\* no override set, the module imported, no script running
HostAtRest ==
    /\ environ = NoEnviron
    /\ module = Import(NoEnviron)
    /\ orchestrator = NotStarted
    /\ monitor = NoProcess
    /\ files = <<>>

Init ==
    /\ max_position_size = DefaultMaxPositionSize
    /\ max_drawdown \in Limits
    /\ stop_loss_percentage = DefaultStopLossPercentage
    /\ portfolio_history \in Histories
    /\ caller_frame = portfolio_history
    /\ pc = [t \in Threads |-> "idle"]
    /\ op = [t \in Threads |-> "none"]
    /\ metrics = [t \in Threads |-> NoMetrics]
    /\ ret = [t \in Threads |-> NoReturn]
    /\ call = NoCall
    /\ HostAtRest

-----------------------------------------------------------------------------
(* One thread's call of calculate_risk_metrics or check_portfolio_risk, one  *)
(* action per statement that reads or writes portfolio_history               *)

Put(m, key, v) == [k \in DOMAIN m \cup {key} |-> IF k = key THEN v ELSE m[k]]

Goto(t, line) == pc' = [pc EXCEPT ![t] = line]

\* an exception leaves the called method
Raise(t, e) ==
    /\ pc' = [pc EXCEPT ![t] = "done"]
    /\ ret' = [ret EXCEPT ![t] = [exc |-> e, value |-> NoMetrics]]
    /\ metrics' = [metrics EXCEPT ![t] = NoMetrics]

\* calculate_risk_metrics returns m: to the caller, or to line 278 of
\* check_portfolio_risk
ReturnMetrics(t, m) ==
    IF op[t] = "calculate_risk_metrics"
    THEN /\ pc' = [pc EXCEPT ![t] = "done"]
         /\ ret' = [ret EXCEPT ![t] = [exc |-> "none", value |-> m]]
         /\ metrics' = [metrics EXCEPT ![t] = NoMetrics]
    ELSE /\ pc' = [pc EXCEPT ![t] = "L280"]
         /\ metrics' = [metrics EXCEPT ![t] = m]
         /\ UNCHANGED ret

Call(t, o) ==
    /\ pc[t] \in {"idle", "done"}
    /\ pc' = [pc EXCEPT ![t] = "L216"]
    /\ op' = [op EXCEPT ![t] = o]
    /\ metrics' = [metrics EXCEPT ![t] = NoMetrics]
    /\ ret' = [ret EXCEPT ![t] = NoReturn]
    /\ UNCHANGED <<config, portfolio_history, caller_frame, call, host>>

\* if portfolio_history.empty: ... return {}       (outside the try block)
L216(t) ==
    /\ pc[t] = "L216"
    /\ IF portfolio_history.type # "DataFrame"
       THEN Raise(t, "AttributeError")
       ELSE IF Empty(portfolio_history)
            THEN ReturnMetrics(t, NoMetrics)
            ELSE Goto(t, "L222") /\ UNCHANGED <<metrics, ret>>
    /\ UNCHANGED <<config, portfolio_history, caller_frame, op, call, host>>

\* if 'returns' not in portfolio_history.columns:
L222(t) ==
    /\ pc[t] = "L222"
    /\ IF "returns" \notin Columns(portfolio_history)
       THEN Goto(t, "L223")
       ELSE Goto(t, "L229")
    /\ UNCHANGED <<config, portfolio_history, caller_frame, op, metrics, ret, call, host>>

\* portfolio_history['returns'] = portfolio_history['value'].pct_change()
\* KeyError without the column, TypeError on a str cell: except -> return {}
L223(t) ==
    /\ pc[t] = "L223"
    /\ IF \/ "value" \notin Columns(portfolio_history)
          \/ ~AllNumbers(portfolio_history.cols["value"])
       THEN ReturnMetrics(t, NoMetrics) /\ UNCHANGED portfolio_history
       ELSE /\ portfolio_history' =
                  SetColumn(portfolio_history, "returns",
                            PctChange(portfolio_history.cols["value"]))
            /\ Goto(t, "L229")
            /\ UNCHANGED <<metrics, ret>>
    /\ UNCHANGED <<config, caller_frame, op, call, host>>

\* metrics['volatility'] = ...
L229(t) ==
    /\ pc[t] = "L229"
    /\ metrics' = [metrics EXCEPT ![t] =
           Put(@, "volatility", Volatility(portfolio_history.cols["returns"]))]
    /\ Goto(t, "L232")
    /\ UNCHANGED <<config, portfolio_history, caller_frame, op, ret, call, host>>

\* portfolio_history['cumulative_returns'] = ...
L232(t) ==
    /\ pc[t] = "L232"
    /\ portfolio_history' =
           SetColumn(portfolio_history, "cumulative_returns",
                     CumulativeReturns(portfolio_history.cols["returns"]))
    /\ Goto(t, "L233")
    /\ UNCHANGED <<config, caller_frame, op, metrics, ret, call, host>>

\* portfolio_history['cumulative_max'] = ...
L233(t) ==
    /\ pc[t] = "L233"
    /\ portfolio_history' =
           SetColumn(portfolio_history, "cumulative_max",
                     CumMax(portfolio_history.cols["cumulative_returns"]))
    /\ Goto(t, "L234")
    /\ UNCHANGED <<config, caller_frame, op, metrics, ret, call, host>>

\* portfolio_history['drawdown'] = ...
L234(t) ==
    /\ pc[t] = "L234"
    /\ portfolio_history' =
           SetColumn(portfolio_history, "drawdown",
                     Drawdown(portfolio_history.cols["cumulative_returns"],
                              portfolio_history.cols["cumulative_max"]))
    /\ Goto(t, "L236")
    /\ UNCHANGED <<config, caller_frame, op, metrics, ret, call, host>>

\* metrics['max_drawdown'] = portfolio_history['drawdown'].min()
L236(t) ==
    /\ pc[t] = "L236"
    /\ metrics' = [metrics EXCEPT ![t] =
           Put(@, "max_drawdown", Min(portfolio_history.cols["drawdown"]))]
    /\ Goto(t, "L239")
    /\ UNCHANGED <<config, portfolio_history, caller_frame, op, ret, call, host>>

\* metrics['sharpe_ratio'] = ...
L239(t) ==
    /\ pc[t] = "L239"
    /\ metrics' = [metrics EXCEPT ![t] =
           Put(@, "sharpe_ratio", SharpeRatio(portfolio_history.cols["returns"]))]
    /\ Goto(t, "L243")
    /\ UNCHANGED <<config, portfolio_history, caller_frame, op, ret, call, host>>

\* lines 243-249: metrics['sortino_ratio'] = ...
L243(t) ==
    /\ pc[t] = "L243"
    /\ metrics' = [metrics EXCEPT ![t] =
           Put(@, "sortino_ratio", SortinoRatio(portfolio_history.cols["returns"]))]
    /\ Goto(t, "L252")
    /\ UNCHANGED <<config, portfolio_history, caller_frame, op, ret, call, host>>

\* lines 252-260: metrics['calmar_ratio'] = ...; return metrics
L252(t) ==
    /\ pc[t] = "L252"
    /\ ReturnMetrics(t, Put(metrics[t], "calmar_ratio",
                            CalmarRatio(portfolio_history.cols["returns"],
                                        metrics[t]["max_drawdown"])))
    /\ UNCHANGED <<config, portfolio_history, caller_frame, op, call, host>>

\* check_portfolio_risk, lines 280-303
L280(t) ==
    /\ pc[t] = "L280"
    /\ ret' = [ret EXCEPT ![t] =
           [exc |-> "none",
            value |-> IF metrics[t] = NoMetrics
                      THEN EmptyMetricsResult
                      ELSE RiskCheck(metrics[t], max_drawdown)]]
    /\ pc' = [pc EXCEPT ![t] = "done"]
    /\ metrics' = [metrics EXCEPT ![t] = NoMetrics]
    /\ UNCHANGED <<config, portfolio_history, caller_frame, op, call, host>>

Next ==
    \E t \in Threads :
        \/ \E o \in Methods : Call(t, o)
        \/ L216(t) \/ L222(t) \/ L223(t) \/ L229(t) \/ L232(t) \/ L233(t)
        \/ L234(t) \/ L236(t) \/ L239(t) \/ L243(t) \/ L252(t) \/ L280(t)

Spec == Init /\ [][Next]_vars

-----------------------------------------------------------------------------
(* The sizing operations, each a call that computes its result from its      *)
(* arguments and the configuration                                           *)

LONG == <<"L", "O", "N", "G">>
Long == <<"L", "o", "n", "g">>
SHORT == <<"S", "H", "O", "R", "T">>

Directions == {long, LONG, Long, short, SHORT}

PortfolioValues == {Float(0), Float(5000), Float(100000)}
RiskPerTrades == {None, <<1, 100>>, <<1, 20>>}
EntryPrices == {Float(100), Float(150)}
StopPrices == {Float(100), Float(145), <<299, 2>>, Float(150), Float(155)}
Atrs == {None, Zero, <<5, 2>>, Float(100)}
AtrMultipliers == {Float(2), <<3, 2>>}
Percentages == {None, <<1, 20>>, <<1, 10>>}
RiskRewardRatios == {Float(2), <<5, 2>>}

InitSizing ==
    /\ max_position_size \in {DefaultMaxPositionSize, <<1, 20>>}
    /\ max_drawdown = DefaultMaxDrawdown
    /\ stop_loss_percentage \in {DefaultStopLossPercentage, <<1, 10>>}
    /\ portfolio_history = DataFrame([c \in {"value"} |-> <<>>])
    /\ caller_frame = portfolio_history
    /\ pc = [t \in Threads |-> "idle"]
    /\ op = [t \in Threads |-> "none"]
    /\ metrics = [t \in Threads |-> NoMetrics]
    /\ ret = [t \in Threads |-> NoReturn]
    /\ call = NoCall
    /\ HostAtRest

calculate_position_size ==
    \E portfolio_value \in PortfolioValues, risk_per_trade \in RiskPerTrades,
       entry_price \in EntryPrices \cup {None},
       stop_loss_price \in StopPrices \cup {None} :
        /\ call' = [op |-> "calculate_position_size",
                    args |-> [portfolio_value |-> portfolio_value,
                              risk_per_trade |-> risk_per_trade,
                              entry_price |-> entry_price,
                              stop_loss_price |-> stop_loss_price],
                    ret |-> PositionSize(max_position_size, portfolio_value,
                                         risk_per_trade, entry_price,
                                         stop_loss_price)]
        /\ UNCHANGED <<config, portfolio_history, caller_frame, pc, op, metrics, ret, host>>

calculate_stop_loss ==
    \E entry_price \in EntryPrices, direction \in Directions, atr \in Atrs,
       atr_multiplier \in AtrMultipliers, custom_percentage \in Percentages :
        /\ call' = [op |-> "calculate_stop_loss",
                    args |-> [entry_price |-> entry_price,
                              direction |-> direction,
                              atr |-> atr,
                              atr_multiplier |-> atr_multiplier,
                              custom_percentage |-> custom_percentage],
                    ret |-> StopLoss(stop_loss_percentage, entry_price, direction,
                                     atr, atr_multiplier, custom_percentage)]
        /\ UNCHANGED <<config, portfolio_history, caller_frame, pc, op, metrics, ret, host>>

calculate_take_profit ==
    \E entry_price \in EntryPrices, stop_loss_price \in StopPrices,
       direction \in Directions, risk_reward_ratio \in RiskRewardRatios :
        /\ call' = [op |-> "calculate_take_profit",
                    args |-> [entry_price |-> entry_price,
                              stop_loss_price |-> stop_loss_price,
                              direction |-> direction,
                              risk_reward_ratio |-> risk_reward_ratio],
                    ret |-> TakeProfit(entry_price, stop_loss_price, direction,
                                       risk_reward_ratio)]
        /\ UNCHANGED <<config, portfolio_history, caller_frame, pc, op, metrics, ret, host>>

NextSizing ==
    \/ calculate_position_size
    \/ calculate_stop_loss
    \/ calculate_take_profit

SpecSizing == InitSizing /\ [][NextSizing]_vars

-----------------------------------------------------------------------------
(* Properties *)

Returned(t, method) == pc[t] = "done" /\ op[t] = method

\* the caller handed over a frame with a numeric value column and >= 1 row
NumericSeries ==
    /\ caller_frame.type = "DataFrame"
    /\ Columns(caller_frame) = {"value"}
    /\ Len(caller_frame.cols["value"]) > 0
    /\ AllNumbers(caller_frame.cols["value"])

\* the frames on which the metrics cannot be computed
NoMetricsFor(df) ==
    /\ df.type = "DataFrame"
    /\ \/ Empty(df)
       \/ "value" \notin Columns(df)
       \/ ~AllNumbers(df.cols["value"])

\* the largest decline of v from its running peak, the peak taken over
\* v[1..i], first value included
PeakDrawdown(v) ==
    MinOf([i \in 1..Len(v) |-> FSub(FDiv(v[i], MaxOf(SubSeq(v, 1, i))), One)])

\* C1: for a non-empty series of positive values the max_drawdown metric is
\* the largest percentage decline of the value from its running peak, the
\* first value of the series included in the peak.
C1_MaxDrawdownFromRunningPeak ==
    \A t \in Threads :
        (Returned(t, "calculate_risk_metrics") /\ NumericSeries) =>
            /\ "max_drawdown" \in DOMAIN ret[t].value
            /\ ret[t].value["max_drawdown"] = PeakDrawdown(caller_frame.cols["value"])

\* |x| > limit for a finite x, by cross-multiplication; false for nan
ExceedsLimit(x, limit) ==
    /\ x[2] > 0
    /\ AbsInt(x[1]) * limit[2] > limit[1] * x[2]

\* C2: when the metrics mapping is not empty, check_portfolio_risk returns
\* (false, non-empty warnings) if |max_drawdown| is strictly greater than
\* the configured limit and (true, no warnings) otherwise; the boolean
\* returned first equals the is_acceptable field of the result.
C2_RiskCheckFollowsLimit ==
    \A t \in Threads :
        (Returned(t, "check_portfolio_risk") /\ ret[t].exc = "none"
           /\ DOMAIN ret[t].value[2] # {}) =>
            LET is_acceptable == ret[t].value[1]
                result == ret[t].value[2]
            IN  /\ DOMAIN result.metrics # {}
                /\ is_acceptable = result.is_acceptable
                /\ IF ExceedsLimit(result.metrics["max_drawdown"], max_drawdown)
                   THEN ~is_acceptable /\ Len(result.warnings) > 0
                   ELSE is_acceptable /\ result.warnings = <<>>

\* a drawdown exactly at the limit was checked and accepted
C2_Witness ==
    \E t \in Threads :
        /\ Returned(t, "check_portfolio_risk")
        /\ ret[t].exc = "none"
        /\ DOMAIN ret[t].value[2] # {}
        /\ FAbs(ret[t].value[2].metrics["max_drawdown"]) = max_drawdown
        /\ ret[t].value[1] = TRUE

\* C3: after calculate_risk_metrics or check_portfolio_risk has returned,
\* the caller's series has the columns and values it had before the call.
C3_SeriesUnchangedAfterCall ==
    \A t \in Threads : pc[t] = "done" => portfolio_history = caller_frame

\* C4: calculate_risk_metrics never propagates an exception; for an empty
\* series and for every malformed input it returns an empty mapping.
C4_MetricsNeverRaises ==
    \A t \in Threads :
        Returned(t, "calculate_risk_metrics") =>
            /\ ret[t].exc = "none"
            /\ ~NumericSeries => ret[t].value = NoMetrics

\* C5: when the metrics mapping is empty, check_portfolio_risk returns
\* (false, empty result) without raising; is_acceptable = true is returned
\* only together with a non-empty metrics mapping.
C5_EmptyMetricsNotAcceptable ==
    \A t \in Threads :
        Returned(t, "check_portfolio_risk") =>
            /\ NoMetricsFor(caller_frame) =>
                   ret[t] = [exc |-> "none", value |-> <<FALSE, NoMetrics>>]
            /\ (ret[t].exc = "none" /\ ret[t].value[1] = TRUE) =>
                   /\ DOMAIN ret[t].value[2] # {}
                   /\ DOMAIN ret[t].value[2].metrics # {}

\* a computation fault (a str in the value column) was absorbed and the
\* check answered (false, {})
C5_Witness ==
    \E t \in Threads :
        /\ Returned(t, "check_portfolio_risk")
        /\ ~Empty(caller_frame)
        /\ NoMetricsFor(caller_frame)
        /\ ret[t].value = <<FALSE, NoMetrics>>

\* C9: for every non-empty numeric value series calculate_risk_metrics
\* returns all five metrics without raising; sortino_ratio is +inf when no
\* return is negative and calmar_ratio is +inf when max_drawdown is 0.
C9_RatiosResolve ==
    \A t \in Threads :
        (Returned(t, "calculate_risk_metrics") /\ NumericSeries) =>
            LET v == caller_frame.cols["value"]
                m == ret[t].value
            IN  /\ ret[t].exc = "none"
                /\ DOMAIN m = MetricKeys
                /\ (\A i \in 2..Len(v) : v[i][1] >= v[i-1][1]) =>
                       m["sortino_ratio"] = Inf
                /\ m["max_drawdown"] = Zero => m["calmar_ratio"] = Inf

\* a series of one observation: no return at all, every ratio resolved
C9_Witness ==
    \E t \in Threads :
        /\ Returned(t, "calculate_risk_metrics")
        /\ NumericSeries
        /\ Len(caller_frame.cols["value"]) = 1
        /\ DOMAIN ret[t].value = MetricKeys
        /\ ret[t].value["sortino_ratio"] = Inf
        /\ IsNaN(ret[t].value["sharpe_ratio"])

\* C10: no operation writes the configuration or any other state shared
\* between calls.
C10_NoSharedStateWritten ==
    [][portfolio_history' = portfolio_history /\ config' = config]_vars

-----------------------------------------------------------------------------
(* Properties of the sizing operations *)

Given(x) == ~IsNone(x)

\* C6: calculate_position_size returns the value of the case table:
\* (1) entry and stop given and different: ret * entry * |entry - stop| =
\* portfolio_value * risk_per_trade (defaulting to max_position_size);
\* (1') entry = stop: the finite fallback portfolio_value * max_position_size
\* / entry; (2) only entry: the same value; (3) no entry: portfolio_value *
\* max_position_size.  Example: 100000, entry 150, stop 145, 0.02 -> 400/150.
C6_PositionSizeCaseTable ==
    call.op = "calculate_position_size" =>
        LET a == call.args
            budget == FMul(a.portfolio_value, max_position_size)
            risk == FMul(a.portfolio_value,
                         IF Given(a.risk_per_trade) THEN a.risk_per_trade
                         ELSE max_position_size)
        IN  /\ IsFinite(call.ret)
            /\ IF ~Given(a.entry_price) THEN call.ret = budget
               ELSE IF ~Given(a.stop_loss_price) \/ a.stop_loss_price = a.entry_price
               THEN FMul(call.ret, a.entry_price) = budget
               ELSE FMul(FMul(call.ret, a.entry_price),
                         IF FGt(a.entry_price, a.stop_loss_price)
                         THEN FSub(a.entry_price, a.stop_loss_price)
                         ELSE FSub(a.stop_loss_price, a.entry_price)) = risk
            /\ (a.portfolio_value = Float(100000) /\ a.entry_price = Float(150)
                  /\ a.stop_loss_price = Float(145) /\ ~Given(a.risk_per_trade)
                  /\ max_position_size = <<1, 50>>) => call.ret = <<8, 3>>

\* the stop coincides with the entry and a risk_per_trade was supplied
C6_Witness ==
    /\ call.op = "calculate_position_size"
    /\ call.args.entry_price = call.args.stop_loss_price
    /\ Given(call.args.entry_price)
    /\ call.args.risk_per_trade = <<1, 100>>
    /\ call.args.portfolio_value = Float(100000)
    /\ max_position_size = <<1, 50>>
    /\ call.ret = <<40, 3>>

\* C7: calculate_stop_loss uses ATR mode whenever atr is given (atr = 0 and
\* a custom_percentage included): entry -/+ atr * atr_multiplier for
\* long/short; otherwise percentage mode with custom_percentage if given,
\* else stop_loss_percentage: entry * (1 -/+ percentage).  Any spelling of
\* long counts as long; the result is not clamped.
C7_StopLossModes ==
    call.op = "calculate_stop_loss" =>
        LET a == call.args
            isLong == a.direction \in {long, LONG, Long}
            percentage == IF Given(a.custom_percentage) THEN a.custom_percentage
                          ELSE stop_loss_percentage
            distance == IF Given(a.atr) THEN FMul(a.atr, a.atr_multiplier)
                        ELSE FMul(a.entry_price, percentage)
        IN  call.ret = IF isLong THEN FSub(a.entry_price, distance)
                       ELSE FAdd(a.entry_price, distance)

\* atr = 0 together with a custom percentage: ATR mode, the stop is the entry
C7_Witness ==
    /\ call.op = "calculate_stop_loss"
    /\ call.args.atr = Zero
    /\ Given(call.args.custom_percentage)
    /\ call.args.direction = LONG
    /\ call.ret = call.args.entry_price

\* C8: take_profit - entry for long and entry - take_profit for short both
\* equal |entry - stop| * risk_reward_ratio, whichever side of the entry the
\* stop lies on.  Example: take_profit(150, 145, 'long', 2.5) = 162.5.
C8_TakeProfitSymmetric ==
    call.op = "calculate_take_profit" =>
        LET a == call.args
            isLong == a.direction \in {long, LONG, Long}
            distance == IF FGt(a.entry_price, a.stop_loss_price)
                        THEN FSub(a.entry_price, a.stop_loss_price)
                        ELSE FSub(a.stop_loss_price, a.entry_price)
            reward == FMul(distance, a.risk_reward_ratio)
        IN  /\ isLong => FSub(call.ret, a.entry_price) = reward
            /\ ~isLong => FSub(a.entry_price, call.ret) = reward
            /\ (a.entry_price = Float(150) /\ a.stop_loss_price = Float(145)
                  /\ a.direction = long /\ a.risk_reward_ratio = <<5, 2>>)
                 => call.ret = <<325, 2>>

\* a long target computed from a stop above the entry
C8_Witness ==
    /\ call.op = "calculate_take_profit"
    /\ call.args.direction = long
    /\ call.args.entry_price = Float(150)
    /\ call.args.stop_loss_price = Float(155)
    /\ call.args.risk_reward_ratio = <<5, 2>>
    /\ call.ret = <<325, 2>>

\* C13: check_portfolio_risk returns is_acceptable = true only when the
\* drawdown could be assessed: with a max_drawdown that is not a number (a
\* series of one observation) it reports is_acceptable = false.
C13_UnassessedNotAcceptable ==
    \A t \in Threads :
        (Returned(t, "check_portfolio_risk") /\ ret[t].exc = "none"
           /\ DOMAIN ret[t].value[2] # {}
           /\ IsNaN(ret[t].value[2].metrics["max_drawdown"])) =>
            ret[t].value[1] = FALSE

\* C14: with risk_per_trade defaulted, the currency value of the position
\* (units * entry_price, or the returned value without an entry price) never
\* exceeds portfolio_value * max_position_size.
C14_PositionValueBounded ==
    (call.op = "calculate_position_size"
       /\ FGt(call.args.portfolio_value, Zero)
       /\ ~Given(call.args.risk_per_trade)) =>
        LET position_value == IF Given(call.args.entry_price)
                              THEN FMul(call.ret, call.args.entry_price)
                              ELSE call.ret
        IN  ~FGt(position_value,
                 FMul(call.args.portfolio_value, max_position_size))

-----------------------------------------------------------------------------
(* Configuration: the module is imported under some environment and a       *)
(* RiskManager is constructed                                               *)

TextNote == <<"0", ".", "0", "5", " ", "#", " ", "n", "o", "t", "e">>
TextPadded == <<" ", "0", ".", "0", "5", " ">>
TextPlain == <<"0", ".", "1">>
TextTwoHashes == <<"0", ".", "2", "5", "#", "a", "#", "1">>
TextOnlyComment == <<"#", " ", "0", ".", "3">>

EnvTexts == {TextNote, TextPadded, TextPlain, TextTwoHashes, TextOnlyComment}

\* every environment: each override unset or set to one of the texts
Environs ==
    UNION {[S -> EnvTexts] : S \in SUBSET EnvVars}

\* a constructor argument: not passed (None here) or a fraction
ConstructorArgs == {None, <<1, 10>>}

InitConfig ==
    /\ environ \in Environs
    /\ module = Unloaded
    /\ max_position_size = None
    /\ max_drawdown = None
    /\ stop_loss_percentage = None
    /\ portfolio_history = DataFrame([c \in {"value"} |-> <<>>])
    /\ caller_frame = portfolio_history
    /\ pc = [t \in Threads |-> "idle"]
    /\ op = [t \in Threads |-> "none"]
    /\ metrics = [t \in Threads |-> NoMetrics]
    /\ ret = [t \in Threads |-> NoReturn]
    /\ call = NoCall
    /\ orchestrator = NotStarted
    /\ monitor = NoProcess
    /\ files = <<>>

\* import of risk_manager: lines 34-36 run once
ImportModule ==
    /\ module.state = "unloaded"
    /\ module' = Import(environ)
    /\ UNCHANGED <<config, portfolio_history, caller_frame, pc, op, metrics, ret,
                   call, environ, orchestrator, monitor, files>>

\* RiskManager(...): an argument that is not passed takes the default bound
\* when the class was defined
Construct ==
    /\ module.state = "loaded"
    /\ \E a, b, c \in ConstructorArgs :
        /\ max_position_size' =
               IF IsNone(a) THEN module.DEFAULT["MAX_POSITION_SIZE"] ELSE a
        /\ max_drawdown' =
               IF IsNone(b) THEN module.DEFAULT["MAX_DRAWDOWN"] ELSE b
        /\ stop_loss_percentage' =
               IF IsNone(c) THEN module.DEFAULT["STOP_LOSS_PERCENTAGE"] ELSE c
        /\ call' = [op |-> "__init__",
                    args |-> [max_position_size |-> a, max_drawdown |-> b,
                              stop_loss_percentage |-> c],
                    ret |-> None]
    /\ UNCHANGED <<portfolio_history, caller_frame, pc, op, metrics, ret, host>>

NextConfig == ImportModule \/ Construct

SpecConfig == InitConfig /\ [][NextConfig]_vars

\* what each text stands for, written out by hand
ExpectedOf(text) ==
    CASE text = TextNote -> <<1, 20>>
      [] text = TextPadded -> <<1, 20>>
      [] text = TextPlain -> <<1, 10>>
      [] text = TextTwoHashes -> <<1, 4>>
      [] text = <<"0", ".", "0", "2">> -> <<1, 50>>
      [] text = <<"0", ".", "1", "5">> -> <<3, 20>>

ExpectedDefault(env_var) ==
    IF env_var \in DOMAIN environ THEN ExpectedOf(environ[env_var])
    ELSE IF env_var = "MAX_DRAWDOWN" THEN <<3, 20>> ELSE <<1, 50>>

\* C12: each default is the number written before the first '#' of its
\* override, surrounding whitespace trimmed ('0.05 # note' and ' 0.05 ' give
\* 0.05); unset, the defaults are 0.02, 0.15 and 0.02; each constructor
\* argument overrides its default independently of the other two.
C12_DefaultsFromEnvironment ==
    /\ (module.state # "unloaded"
          /\ \A v \in DOMAIN environ : environ[v] # TextOnlyComment) =>
           /\ module.state = "loaded"
           /\ \A v \in EnvVars : module.DEFAULT[v] = ExpectedDefault(v)
    /\ call.op = "__init__" =>
           /\ max_position_size =
                  IF Given(call.args.max_position_size)
                  THEN call.args.max_position_size
                  ELSE ExpectedDefault("MAX_POSITION_SIZE")
           /\ max_drawdown =
                  IF Given(call.args.max_drawdown)
                  THEN call.args.max_drawdown
                  ELSE ExpectedDefault("MAX_DRAWDOWN")
           /\ stop_loss_percentage =
                  IF Given(call.args.stop_loss_percentage)
                  THEN call.args.stop_loss_percentage
                  ELSE ExpectedDefault("STOP_LOSS_PERCENTAGE")

\* a commented and a padded override, the third unset, one argument passed
C12_Witness ==
    /\ call.op = "__init__"
    /\ DOMAIN environ = {"MAX_POSITION_SIZE", "STOP_LOSS_PERCENTAGE"}
    /\ environ["MAX_POSITION_SIZE"] = TextNote
    /\ environ["STOP_LOSS_PERCENTAGE"] = TextPadded
    /\ Given(call.args.stop_loss_percentage)
    /\ ~Given(call.args.max_position_size)
    /\ ~Given(call.args.max_drawdown)
    /\ max_position_size = <<1, 20>>
    /\ max_drawdown = <<3, 20>>
    /\ stop_loss_percentage = <<1, 10>>

-----------------------------------------------------------------------------
(* One caller that calls the metric methods one after the other on the same *)
(* DataFrame and assigns new values to its value column between calls       *)

\* df['value'] = new values, by the caller, between two calls
CallerUpdate ==
    /\ \A t \in Threads : pc[t] \in {"idle", "done"}
    /\ portfolio_history.type = "DataFrame"
    /\ "value" \in Columns(portfolio_history)
    /\ AllNumbers(portfolio_history.cols["value"])
    /\ \E v \in SeqsUpTo(Values, MaxLen) :
        /\ Len(v) = Len(portfolio_history.cols["value"])
        /\ v # portfolio_history.cols["value"]
        /\ portfolio_history' = SetColumn(portfolio_history, "value", v)
        /\ caller_frame' = DataFrame([c \in {"value"} |-> v])
    /\ pc' = [t \in Threads |-> "idle"]
    /\ ret' = [t \in Threads |-> NoReturn]
    /\ UNCHANGED <<config, op, metrics, call, host>>

Caller == "t1"

NextCaller ==
    \/ \E o \in Methods : Call(Caller, o)
    \/ L216(Caller) \/ L222(Caller) \/ L223(Caller) \/ L229(Caller)
    \/ L232(Caller) \/ L233(Caller) \/ L234(Caller) \/ L236(Caller)
    \/ L239(Caller) \/ L243(Caller) \/ L252(Caller) \/ L280(Caller)
    \/ CallerUpdate

SpecCaller == Init /\ [][NextCaller]_vars

\* what a first call of calculate_risk_metrics returns on a fresh frame
\* whose value column is v
FreshMetrics(v) ==
    LET returns == PctChange(v)
        cumulative_returns == CumulativeReturns(returns)
        drawdown == Drawdown(cumulative_returns, CumMax(cumulative_returns))
        mdd == Min(drawdown)
    IN  [volatility |-> Volatility(returns),
         max_drawdown |-> mdd,
         sharpe_ratio |-> SharpeRatio(returns),
         sortino_ratio |-> SortinoRatio(returns),
         calmar_ratio |-> CalmarRatio(returns, mdd)]

\* C11: whatever calls and caller updates came before, the metrics a call
\* returns are those of a first call on a fresh series holding the values
\* the series has at the time of the call.
C11_MetricsFromCurrentValues ==
    \A t \in Threads :
        (Returned(t, "calculate_risk_metrics")
           /\ portfolio_history.type = "DataFrame"
           /\ ~NoMetricsFor(portfolio_history)) =>
            ret[t].value = FreshMetrics(portfolio_history.cols["value"])

-----------------------------------------------------------------------------
(* scripts/backtest_with_monitoring.py main and the scripts/track_peak_usage.py *)
(* process it starts.  A snapshot file is [session, measurements]; files is     *)
(* ordered by modification time, so the latest file is the last one.            *)

EarlierSnapshot == [session |-> "earlier", measurements |-> 1]

InitMonitor ==
    /\ max_position_size = DefaultMaxPositionSize
    /\ max_drawdown = DefaultMaxDrawdown
    /\ stop_loss_percentage = DefaultStopLossPercentage
    /\ portfolio_history = DataFrame([c \in {"value"} |-> <<>>])
    /\ caller_frame = portfolio_history
    /\ pc = [t \in Threads |-> "idle"]
    /\ op = [t \in Threads |-> "none"]
    /\ metrics = [t \in Threads |-> NoMetrics]
    /\ ret = [t \in Threads |-> NoReturn]
    /\ call = NoCall
    /\ environ = NoEnviron
    /\ module = Import(NoEnviron)
    /\ orchestrator = [NotStarted EXCEPT !.pc = "L219"]
    /\ monitor = NoProcess
    /\ files \in {<<>>, <<EarlierSnapshot>>}

engine == <<config, portfolio_history, caller_frame, pc, op, metrics, ret, call,
            environ, module>>

InTry == orchestrator.pc \in {"L219", "L219_bind", "L225", "L233", "L234",
                              "L240", "L243"}

\* main returns code: control leaves main
Return(code) == [orchestrator EXCEPT !.pc = "done", !.returned = code]

\* Popen.terminate(): SIGTERM to the process if it is still alive
Terminate(m) ==
    IF m.state = "running" THEN [m EXCEPT !.signals = @ \cup {"SIGTERM"}] ELSE m

\* save_peak_data: a new, most recent peak_usage_*.json
SavePeakData(fs, m) ==
    Append(fs, [session |-> "this", measurements |-> m.measurements])

\* get_latest_peak_usage_file: the most recent file, None (0) without files
GetLatestPeakUsageFile(fs) == Len(fs)

\* line 61 in run_peak_usage_monitor: subprocess.Popen starts the monitor
Popen ==
    /\ orchestrator.pc = "L219"
    /\ monitor' = [monitor EXCEPT !.state = "running"]
    /\ orchestrator' = [orchestrator EXCEPT !.pc = "L219_bind"]
    /\ UNCHANGED <<engine, files>>

\* line 61: Popen raises (OSError): except Exception, return 1
PopenFails ==
    /\ orchestrator.pc = "L219"
    /\ orchestrator' = Return(1)
    /\ UNCHANGED <<engine, monitor, files>>

\* lines 64, 219-222: the process is returned and bound to monitor_process
BindMonitorProcess ==
    /\ orchestrator.pc = "L219_bind"
    /\ orchestrator' = [orchestrator EXCEPT !.pc = "L225",
                                            !.monitor_process = "bound"]
    /\ UNCHANGED <<engine, monitor, files>>

\* lines 225-230: run_backtest returns (return_code, duration, output_file)
RunBacktest ==
    /\ orchestrator.pc = "L225"
    /\ \E rc \in {0, 1} :
        orchestrator' = [orchestrator EXCEPT !.pc = "L233", !.return_code = rc]
    /\ UNCHANGED <<engine, monitor, files>>

\* lines 92-109: subprocess.run or writing the log raises: except Exception
\* (lines 258-260), return 1
RunBacktestFails ==
    /\ orchestrator.pc = "L225"
    /\ orchestrator' = Return(1)
    /\ UNCHANGED <<engine, monitor, files>>

\* line 233: monitor_process.terminate()
L233_Terminate ==
    /\ orchestrator.pc = "L233"
    /\ monitor' = Terminate(monitor)
    /\ orchestrator' = [orchestrator EXCEPT !.pc = "L234"]
    /\ UNCHANGED <<engine, files>>

\* lines 234-237: monitor_process.wait() returns once the process is gone
L234_Wait ==
    /\ orchestrator.pc = "L234"
    /\ monitor.state \in {"killed", "exited"}
    /\ orchestrator' = [orchestrator EXCEPT !.pc = "L240"]
    /\ UNCHANGED <<engine, monitor, files>>

\* line 240
L240_GetLatest ==
    /\ orchestrator.pc = "L240"
    /\ orchestrator' = [orchestrator EXCEPT
                            !.pc = "L243",
                            !.peak_file = GetLatestPeakUsageFile(files)]
    /\ UNCHANGED <<engine, monitor, files>>

\* lines 243-250: the report is built from peak_file, main returns return_code
L243_Report ==
    /\ orchestrator.pc = "L243"
    /\ orchestrator' =
           [Return(orchestrator.return_code) EXCEPT
                !.report = IF orchestrator.peak_file = 0 THEN "no usage data"
                           ELSE files[orchestrator.peak_file].session]
    /\ UNCHANGED <<engine, monitor, files>>

\* lines 132-205: building the report raises: except Exception, return 1
L243_ReportFails ==
    /\ orchestrator.pc = "L243"
    /\ orchestrator' = Return(1)
    /\ UNCHANGED <<engine, monitor, files>>

\* lines 252-257: KeyboardInterrupt anywhere in the try block; group: the
\* interrupt (Ctrl-C) reaches the monitor of the same process group as well
UserInterrupt ==
    /\ InTry
    /\ \E group \in BOOLEAN :
        LET seen == IF group /\ monitor.state = "running"
                    THEN [monitor EXCEPT !.signals = @ \cup {"SIGINT"}]
                    ELSE monitor
        IN  monitor' = IF orchestrator.monitor_process = "bound"
                       THEN Terminate(seen) ELSE seen
    /\ orchestrator' = Return(1)
    /\ UNCHANGED <<engine, files>>

\* track_peak_usage, lines 80-102: one more measurement
Measure ==
    /\ monitor.state = "running"
    /\ monitor.measurements < MaxMeasurements
    /\ monitor' = [monitor EXCEPT !.measurements = @ + 1]
    /\ UNCHANGED <<engine, orchestrator, files>>

\* SIGTERM has Python's default disposition: the process ends at once,
\* lines 104-110 and 170 do not run
MonitorKilled ==
    /\ monitor.state = "running"
    /\ "SIGTERM" \in monitor.signals
    /\ monitor' = [monitor EXCEPT !.state = "killed", !.signals = {}]
    /\ UNCHANGED <<engine, orchestrator, files>>

\* SIGINT: KeyboardInterrupt, caught at line 104; lines 107-110 and 170 run
MonitorInterrupted ==
    /\ monitor.state = "running"
    /\ "SIGINT" \in monitor.signals
    /\ files' = SavePeakData(files, monitor)
    /\ monitor' = [monitor EXCEPT !.state = "exited", !.signals = {}]
    /\ UNCHANGED <<engine, orchestrator>>

\* the 86400 s of --duration are over: the loop ends, lines 107-110, 170 run
MonitorDurationOver ==
    /\ monitor.state = "running"
    /\ files' = SavePeakData(files, monitor)
    /\ monitor' = [monitor EXCEPT !.state = "exited", !.signals = {}]
    /\ UNCHANGED <<engine, orchestrator>>

NextMonitor ==
    \/ Popen \/ PopenFails \/ BindMonitorProcess
    \/ RunBacktest \/ RunBacktestFails
    \/ L233_Terminate \/ L234_Wait \/ L240_GetLatest
    \/ L243_Report \/ L243_ReportFails
    \/ UserInterrupt
    \/ Measure \/ MonitorKilled \/ MonitorInterrupted \/ MonitorDurationOver

SpecMonitor == InitMonitor /\ [][NextMonitor]_vars

\* C15: once the monitor process has been started, main does not return
\* while it is left running: it has exited or has been sent SIGTERM.
C15_MonitorTerminatedOnReturn ==
    (orchestrator.returned # -1 /\ monitor.state # "none") =>
        \/ monitor.state \in {"killed", "exited"}
        \/ "SIGTERM" \in monitor.signals

\* C16: when the run completes normally, the monitor stopped by main has
\* saved its snapshot, and the report is built from that snapshot.
C16_ReportFromThisMonitor ==
    orchestrator.report # "unbuilt" =>
        /\ monitor.state = "exited"
        /\ orchestrator.report = "this"

====
